---- MODULE Spec2Model ----
(***************************************************************************)
(* Model of the lilja-game runtime core: the level (Lilja.Level), its      *)
(* per-frame collision sweep and its callback-driven mission intro, and    *)
(* the main game state (Lilja.Main) with its per-frame update.             *)
(***************************************************************************)
EXTENDS Integers, Sequences, FiniteSets, TLC

(***************************************************************************)
(* Bounds of the model.                                                    *)
(***************************************************************************)
MaxIntroCalls == 2
MaxTweens == 2
PlayerHealth == 12
EnemyHealth == 2

(***************************************************************************)
(* Program constants and collaborator data.                                *)
(***************************************************************************)
FlashRepeat == 5
InitialFpsText == 100
BulletDamage == 1

Enemies == {1, 2}
Bullets == {1}
NumBullets == Cardinality(Bullets)
EnemyDamage == <<5, 7>>
FpsValues == {60}

VARIABLES
    player,       \* Lilja.Player fields the level reads and writes
    enemies,      \* Level.enemies / Main.enemies: enemy -> health
    bullets,      \* player.bullets: bullet -> [exists, enable, frameName, tweens]
    running,      \* Main._running
    fpsText,      \* Main.fpsCounter.text
    introMusic,   \* Level.introMusic is playing
    bgMusic,      \* Level.bgMusic is playing
    walkTweens,   \* pending walk tweens whose onComplete holds _beginIntro
    dialogues,    \* DialogueManagers created by _beginIntro, in creation order
    flashes,      \* 'MISSION START' texts created, the last one is Level._flash
    flashTimers,  \* repeats left of every flash timer created
    lastOp        \* history: the operation that ran last and what it met

worldVars == <<player, enemies, bullets>>
mainVars == <<running, fpsText>>
seqVars == <<introMusic, bgMusic, walkTweens, dialogues, flashes, flashTimers>>
vars == <<player, enemies, bullets, running, fpsText, introMusic, bgMusic,
          walkTweens, dialogues, flashes, flashTimers, lastOp>>

World == [player |-> player, enemies |-> enemies, bullets |-> bullets]

(***************************************************************************)
(* Actors' reactions.                                                      *)
(***************************************************************************)
\* Player.hit(damage): the player takes the damage.
PlayerHit(p, damage) == [p EXCEPT !.health = @ - damage]

\* Enemy.hit(bullet) / Enemy.onHit(bullet): the enemy takes the bullet's damage.
EnemyHit(w, e, b) == [w EXCEPT !.enemies[e] = @ - BulletDamage]

\* A sprite takes part in collisions while it exists (it is destroyed at health <= 0).
PlayerExists(p) == p.health > 0
EnemyExists(w, e) == w.enemies[e] > 0

\* Bullet.hit(target): the bullet turns inert and starts its decay, once.
BulletHit(w, b) ==
    IF w.bullets[b].enable
    THEN [w EXCEPT !.bullets[b].frameName = "bang",
                   !.bullets[b].enable = FALSE,
                   !.bullets[b].tweens = @ + 1]
    ELSE w

(***************************************************************************)
(* Lilja.Level collision callbacks.                                        *)
(***************************************************************************)
PlayerEnemyProcessAlways(p, e) == TRUE
PlayerEnemyProcessInPlay(p, e) == ~p.invincible /\ ~p.disableControls
PlayerEnemyProcess(p, e) == ~p.invincible

PlayerEnemyCollisionGrace(w, e) ==
    [w EXCEPT !.player = [PlayerHit(@, EnemyDamage[e]) EXCEPT !.invincible = TRUE]]
PlayerEnemyCollision(w, e) == [w EXCEPT !.player = PlayerHit(@, EnemyDamage[e])]

LevelBulletWallCollision(w, b) == BulletHit(w, b)

LevelBulletEnemyCollisionSpares(w, b, e) == BulletHit(w, b)
LevelBulletEnemyCollision(w, b, e) == BulletHit(EnemyHit(w, e, b), b)

(***************************************************************************)
(* Lilja.Main collision callbacks.                                         *)
(***************************************************************************)
MainBulletWallCollisionDestroys(w, b) ==
    [w EXCEPT !.bullets[b].frameName = "bang",
              !.bullets[b].enable = FALSE,
              !.bullets[b].exists = FALSE]
MainBulletWallCollision(w, b) ==
    [w EXCEPT !.bullets[b].frameName = "bang",
              !.bullets[b].enable = FALSE,
              !.bullets[b].tweens = @ + 1]

MainBulletEnemyCollision(w, b, e) ==
    [EnemyHit(w, e, b) EXCEPT !.bullets[b].frameName = "bang",
                              !.bullets[b].enable = FALSE,
                              !.bullets[b].tweens = @ + 1]

(***************************************************************************)
(* The engine's collide(a, b, onHit, shouldProcess): onHit runs once per   *)
(* overlapping pair of existing sprites with enabled bodies, pair by pair, *)
(* each pair seeing the effects of the pairs before it.                    *)
(***************************************************************************)
BulletCollides(w, b) == w.bullets[b].exists /\ w.bullets[b].enable

RECURSIVE CollidePlayerEnemies(_, _, _)
CollidePlayerEnemies(w, pe, e) ==
    IF e > Cardinality(Enemies) THEN w
    ELSE LET w1 == IF e \in pe /\ EnemyExists(w, e) /\ PlayerEnemyProcess(w.player, e)
                   THEN PlayerEnemyCollision(w, e)
                   ELSE w
         IN CollidePlayerEnemies(w1, pe, e + 1)

BulletWall(w, b, who) ==
    IF who = "level" THEN LevelBulletWallCollision(w, b) ELSE MainBulletWallCollision(w, b)

BulletEnemy(w, b, e, who) ==
    IF who = "level" THEN LevelBulletEnemyCollision(w, b, e)
    ELSE MainBulletEnemyCollision(w, b, e)

RECURSIVE CollideBulletsTerrain(_, _, _, _)
CollideBulletsTerrain(w, bt, b, who) ==
    IF b > NumBullets THEN w
    ELSE LET w1 == IF b \in bt /\ BulletCollides(w, b) THEN BulletWall(w, b, who) ELSE w
         IN CollideBulletsTerrain(w1, bt, b + 1, who)

RECURSIVE CollideBulletsEnemies(_, _, _, _, _)
CollideBulletsEnemies(w, be, b, e, who) ==
    IF b > NumBullets THEN w
    ELSE IF e > Cardinality(Enemies) THEN CollideBulletsEnemies(w, be, b + 1, 1, who)
    ELSE LET w1 == IF <<b, e>> \in be /\ BulletCollides(w, b) /\ EnemyExists(w, e)
                   THEN BulletEnemy(w, b, e, who)
                   ELSE w
         IN CollideBulletsEnemies(w1, be, b, e + 1, who)

ApplyPassTerrainHurts(w, pass, ov, who) ==
    CASE pass = "player-enemies" ->
            IF PlayerExists(w.player) THEN CollidePlayerEnemies(w, ov.pe, 1) ELSE w
      [] pass = "bullets-terrain" -> CollideBulletsTerrain(w, ov.bt, 1, who)
      [] pass = "bullets-enemies" -> CollideBulletsEnemies(w, ov.be, 1, 1, who)
      [] pass = "player-terrain" -> [w EXCEPT !.player = PlayerHit(@, 1)]
      [] OTHER -> w

\* One overlap pass on the world w with the frame's overlaps ov.
ApplyPass(w, pass, ov, who) ==
    CASE pass = "player-enemies" ->
            IF PlayerExists(w.player) THEN CollidePlayerEnemies(w, ov.pe, 1) ELSE w
      [] pass = "bullets-terrain" -> CollideBulletsTerrain(w, ov.bt, 1, who)
      [] pass = "bullets-enemies" -> CollideBulletsEnemies(w, ov.be, 1, 1, who)
      [] OTHER -> w  \* player-terrain, enemies-terrain, giblets-terrain: blocking only

RECURSIVE RunPasses(_, _, _, _)
RunPasses(st, ps, ov, who) ==
    IF ps = <<>> THEN st
    ELSE RunPasses([w |-> ApplyPass(st.w, Head(ps), ov, who),
                    log |-> Append(st.log, Head(ps))],
                   Tail(ps), ov, who)

LevelPassesBulletsFirst ==
    <<"bullets-terrain", "bullets-enemies", "player-enemies",
      "player-terrain", "enemies-terrain", "giblets-terrain">>

LevelPassesContactLast ==
    <<"bullets-terrain", "bullets-enemies", "player-terrain",
      "enemies-terrain", "giblets-terrain", "player-enemies">>

\* Level.handleCollisions: the passes in source order.
LevelPasses ==
    <<"player-enemies", "bullets-terrain", "bullets-enemies",
      "player-terrain", "enemies-terrain", "giblets-terrain">>

HandleCollisions(w, ov) == RunPasses([w |-> w, log |-> <<>>], LevelPasses, ov, "level")

\* Main.update, the part behind the running flag: the passes in source order.
MainPasses ==
    <<"player-terrain", "enemies-terrain", "bullets-terrain", "bullets-enemies">>

UpdateCollisions(w, ov) == RunPasses([w |-> w, log |-> <<>>], MainPasses, ov, "main")

\* The overlaps a frame can meet: the engine tests a body only while its
\* sprite exists and the body is enabled.
Overlaps(w) ==
    LET liveEnemies == {e \in Enemies : EnemyExists(w, e)}
        liveBullets == {b \in Bullets : BulletCollides(w, b)}
    IN [pe : IF PlayerExists(w.player) THEN SUBSET liveEnemies ELSE {{}},
        bt : SUBSET liveBullets,
        be : SUBSET (liveBullets \X liveEnemies)]

UpdateUnguarded(w, r, text, ov, fps) ==
    LET st == UpdateCollisions(w, ov)
    IN [w |-> st.w, fpsText |-> fps, log |-> st.log]

\* Main.update: nothing runs unless the session is running.
Update(w, r, text, ov, fps) ==
    IF ~r THEN [w |-> w, fpsText |-> text, log |-> <<>>]
    ELSE LET st == UpdateCollisions(w, ov)
         IN [w |-> st.w, fpsText |-> fps, log |-> st.log]

(***************************************************************************)
(* History of a step: the operation, its argument, the overlap passes it   *)
(* ran in order, the live enemies that overlapped the live player, and,    *)
(* of the bullets with an enabled body, those that overlapped terrain and  *)
(* the live enemies each overlapped.                                       *)
(***************************************************************************)
Contacts(w, ov) == ov.pe

OnTerrain(w, ov) == {b \in ov.bt : BulletCollides(w, b)}

OnEnemies(w, ov) == {p \in ov.be : BulletCollides(w, p[1])}

Op(name, arg) ==
    [op |-> name, arg |-> arg, passes |-> <<>>, contacts |-> {}, bt |-> {}, be |-> {}]

FrameOp(name, w, ov, log) ==
    [op |-> name, arg |-> 0, passes |-> log, contacts |-> Contacts(w, ov),
     bt |-> OnTerrain(w, ov), be |-> OnEnemies(w, ov)]

(***************************************************************************)
(* Signals. onFinished.addOnce(listener): the binding is dropped by the    *)
(* dispatch that runs it.                                                  *)
(***************************************************************************)
AddOnce(listeners) == listeners + 1
ListenersKept(listeners) == listeners
ListenersAfterDispatch(listeners) == 0

\* A dialogue: its onFinished listeners, whether it has signalled (history:
\* "none", "once", "repeated") and how often it ran its listener (history).
NewDialogue == [listeners |-> AddOnce(0), signals |-> "none", runs |-> 0]

NextSignals(sig) == IF sig = "none" THEN "once" ELSE "repeated"

IntroCalls == walkTweens + Len(dialogues)

(***************************************************************************)
(* Initial state: Main.create has run, the Level is constructed, created   *)
(* and populated; no bullet has been fired, no intro started.              *)
(***************************************************************************)
Init ==
    /\ player = [health |-> PlayerHealth, invincible |-> FALSE,
                 disableControls |-> FALSE, anim |-> "none", hpMade |-> FALSE]
    /\ enemies = [e \in Enemies |-> EnemyHealth]
    /\ bullets = [b \in Bullets |->
                     [exists |-> FALSE, enable |-> FALSE, frameName |-> "bullet", tweens |-> 0]]
    /\ running = TRUE
    /\ fpsText = InitialFpsText
    /\ introMusic = FALSE
    /\ bgMusic = FALSE
    /\ walkTweens = 0
    /\ dialogues = <<>>
    /\ flashes = <<>>
    /\ flashTimers = <<>>
    /\ lastOp = Op("create", 0)

(***************************************************************************)
(* Level.handleCollisions(), one frame of the level.                       *)
(***************************************************************************)
LevelHandleCollisions ==
    \E ov \in Overlaps(World) :
        LET st == HandleCollisions(World, ov) IN
        /\ player' = st.w.player
        /\ enemies' = st.w.enemies
        /\ bullets' = st.w.bullets
        /\ lastOp' = FrameOp("handleCollisions", World, ov, st.log)
        /\ UNCHANGED <<mainVars, seqVars>>

(***************************************************************************)
(* Main.update(), one tick of the session.                                 *)
(***************************************************************************)
MainUpdate ==
    \E ov \in Overlaps(World), fps \in FpsValues :
        LET st == Update(World, running, fpsText, ov, fps) IN
        /\ player' = st.w.player
        /\ enemies' = st.w.enemies
        /\ bullets' = st.w.bullets
        /\ fpsText' = st.fpsText
        /\ lastOp' = FrameOp("update", World, ov, st.log)
        /\ UNCHANGED <<running, seqVars>>

(***************************************************************************)
(* The decay tween of a bullet completes: the bullet is destroyed.         *)
(***************************************************************************)
BulletTweenComplete(b) ==
    /\ bullets[b].tweens > 0
    /\ bullets' = [bullets EXCEPT ![b].tweens = @ - 1,
                                  ![b].exists = FALSE,
                                  ![b].enable = FALSE]
    /\ lastOp' = Op("bulletDecayed", b)
    /\ UNCHANGED <<player, enemies, mainVars, seqVars>>

(***************************************************************************)
(* Collaborators: the player fires a bullet of its pool, the player's      *)
(* grace period starts or ends, the session is paused or resumed.          *)
(***************************************************************************)
Fire(b) ==
    /\ ~bullets[b].exists
    /\ bullets[b].tweens = 0
    /\ bullets' = [bullets EXCEPT ![b] =
                      [exists |-> TRUE, enable |-> TRUE, frameName |-> "bullet", tweens |-> 0]]
    /\ lastOp' = Op("fire", b)
    /\ UNCHANGED <<player, enemies, mainVars, seqVars>>

SetInvincible(v) ==
    /\ player.invincible # v
    /\ player' = [player EXCEPT !.invincible = v]
    /\ lastOp' = Op("setInvincible", 0)
    /\ UNCHANGED <<enemies, bullets, mainVars, seqVars>>

SetRunning(v) ==
    /\ running # v
    /\ running' = v
    /\ lastOp' = Op("setRunning", 0)
    /\ UNCHANGED <<worldVars, fpsText, seqVars>>

(***************************************************************************)
(* Level.intro() and the callbacks it chains.                              *)
(***************************************************************************)
Intro ==
    /\ IntroCalls < MaxIntroCalls
    /\ introMusic' = TRUE
    /\ player' = [player EXCEPT !.disableControls = TRUE, !.anim = "walk"]
    /\ walkTweens' = walkTweens + 1
    /\ lastOp' = Op("intro", 0)
    /\ UNCHANGED <<enemies, bullets, mainVars, bgMusic, dialogues, flashes, flashTimers>>

\* The walk tween completes: Level._beginIntro.
BeginIntro ==
    /\ walkTweens > 0
    /\ walkTweens' = walkTweens - 1
    /\ player' = [player EXCEPT !.anim = "stand"]
    /\ dialogues' = Append(dialogues, NewDialogue)
    /\ lastOp' = Op("beginIntro", 0)
    /\ UNCHANGED <<enemies, bullets, mainVars, introMusic, bgMusic, flashes, flashTimers>>

\* Level._showMissionStartText: a new visible text and a new timer of 5 repeats.
ShowMissionStartText(s) ==
    [s EXCEPT !.flashes = Append(@, [visible |-> TRUE]),
              !.flashTimers = Append(@, FlashRepeat)]

StartMissionNoControls(s) ==
    ShowMissionStartText(
        [s EXCEPT !.player.hpMade = TRUE, !.introMusic = FALSE, !.bgMusic = TRUE])

StartMissionKeepsIntroMusic(s) ==
    ShowMissionStartText(
        [s EXCEPT !.player.disableControls = FALSE, !.player.hpMade = TRUE,
                  !.bgMusic = TRUE])

\* Level._startMission.
StartMission(s) ==
    ShowMissionStartText(
        [s EXCEPT !.player.disableControls = FALSE,
                  !.player.hpMade = TRUE,
                  !.introMusic = FALSE,
                  !.bgMusic = TRUE])

\* A dispatch runs every listener bound to the signal.
RECURSIVE Dispatch(_, _)
Dispatch(s, n) == IF n = 0 THEN s ELSE Dispatch(StartMission(s), n - 1)

\* Dialogue d signals onFinished.
DialogueFinished(d) ==
    /\ d \in 1..Len(dialogues)
    /\ LET n == dialogues[d].listeners
           s == Dispatch([player |-> player, introMusic |-> introMusic,
                          bgMusic |-> bgMusic, flashes |-> flashes,
                          flashTimers |-> flashTimers], n)
       IN /\ dialogues' = [dialogues EXCEPT ![d].listeners = ListenersAfterDispatch(@),
                                            ![d].signals = NextSignals(@),
                                            ![d].runs = @ + n]
          /\ player' = s.player
          /\ introMusic' = s.introMusic
          /\ bgMusic' = s.bgMusic
          /\ flashes' = s.flashes
          /\ flashTimers' = s.flashTimers
    /\ lastOp' = Op("dialogueFinished", d)
    /\ UNCHANGED <<enemies, bullets, mainVars, walkTweens>>

\* The callback of a flash timer: it toggles Level._flash, the text created last.
FlashToggle(fs) ==
    [fs EXCEPT ![Len(fs)].visible = ~@]

\* Flash timer t fires.
FlashTick(t) ==
    /\ t \in 1..Len(flashTimers)
    /\ flashTimers[t] > 0
    /\ flashTimers' = [flashTimers EXCEPT ![t] = @ - 1]
    /\ flashes' = FlashToggle(flashes)
    /\ lastOp' = Op("flashTick", t)
    /\ UNCHANGED <<worldVars, mainVars, introMusic, bgMusic, walkTweens, dialogues>>

(***************************************************************************)
(* Specifications: the frames of a session, and the intro of a level.      *)
(***************************************************************************)
NextFrames ==
    \/ LevelHandleCollisions
    \/ MainUpdate
    \/ \E b \in Bullets : BulletTweenComplete(b)
    \/ \E b \in Bullets : Fire(b)
    \/ \E v \in BOOLEAN : SetInvincible(v)
    \/ \E v \in BOOLEAN : SetRunning(v)

SpecFrames == Init /\ [][NextFrames]_vars

NextIntro ==
    \/ Intro
    \/ BeginIntro
    \/ \E d \in 1..MaxIntroCalls : DialogueFinished(d)
    \/ \E t \in 1..MaxIntroCalls : FlashTick(t)

SpecIntro == Init /\ [][NextIntro]_vars

(***************************************************************************)
(* The collision callbacks called directly, on any bullet of the pool,     *)
(* beside the frames of the level that call them through the engine.       *)
(***************************************************************************)
CallBulletWallCollision(who, b) ==
    /\ bullets[b].exists
    /\ bullets[b].tweens < MaxTweens
    /\ LET w == BulletWall(World, b, who)
       IN /\ player' = w.player
          /\ enemies' = w.enemies
          /\ bullets' = w.bullets
    /\ lastOp' = Op(<<who, "_bulletWallCollision">>, b)
    /\ UNCHANGED <<mainVars, seqVars>>

CallBulletEnemyCollision(who, b, e) ==
    /\ bullets[b].exists
    /\ bullets[b].tweens < MaxTweens
    /\ EnemyExists(World, e)
    /\ LET w == BulletEnemy(World, b, e, who)
       IN /\ player' = w.player
          /\ enemies' = w.enemies
          /\ bullets' = w.bullets
    /\ lastOp' = Op(<<who, "_bulletEnemyCollision">>, b)
    /\ UNCHANGED <<mainVars, seqVars>>

NextHandlers ==
    \/ LevelHandleCollisions
    \/ \E who \in {"level", "main"}, b \in Bullets : CallBulletWallCollision(who, b)
    \/ \E who \in {"level", "main"}, b \in Bullets, e \in Enemies :
          CallBulletEnemyCollision(who, b, e)
    \/ \E b \in Bullets : BulletTweenComplete(b)
    \/ \E b \in Bullets : Fire(b)

SpecHandlers == Init /\ [][NextHandlers]_vars

(***************************************************************************)
(* One level from its first intro() on: its frames go on while the walk    *)
(* tween, the dialogue and the flash timer of that intro are pending.      *)
(***************************************************************************)
IntroFirst == IntroCalls = 0 /\ Intro

NextLevel ==
    \/ IntroFirst
    \/ BeginIntro
    \/ \E d \in 1..MaxIntroCalls : DialogueFinished(d)
    \/ \E t \in 1..MaxIntroCalls : FlashTick(t)
    \/ LevelHandleCollisions
    \/ \E b \in Bullets : Fire(b)
    \/ \E b \in Bullets : BulletTweenComplete(b)

SpecLevel == Init /\ [][NextLevel]_vars

(***************************************************************************)
(* Level.createObjects(player) on a constructed level: the enemy group is   *)
(* empty until the spawn points of the tilemap that carry zombieID are      *)
(* turned into enemies; spawn is the set of those spawn points.            *)
(***************************************************************************)
CreateObjects(w, spawn) ==
    [w |-> [w EXCEPT !.enemies =
                [e \in Enemies |-> IF e \in spawn THEN EnemyHealth ELSE @[e]]],
     result |-> "enemies"]

LevelCreateObjects(spawn) ==
    /\ lastOp.op = "new"
    /\ LET st == CreateObjects(World, spawn) IN
         /\ enemies' = st.w.enemies
         /\ lastOp' = Op("createObjects", [spawn |-> spawn, result |-> st.result])
    /\ UNCHANGED <<player, bullets, mainVars, seqVars>>

InitConstructed ==
    /\ player = [health |-> PlayerHealth, invincible |-> FALSE,
                 disableControls |-> FALSE, anim |-> "none", hpMade |-> FALSE]
    /\ enemies = [e \in Enemies |-> 0]
    /\ bullets = [b \in Bullets |->
                     [exists |-> FALSE, enable |-> FALSE, frameName |-> "bullet", tweens |-> 0]]
    /\ running = TRUE
    /\ fpsText = InitialFpsText
    /\ introMusic = FALSE
    /\ bgMusic = FALSE
    /\ walkTweens = 0
    /\ dialogues = <<>>
    /\ flashes = <<>>
    /\ flashTimers = <<>>
    /\ lastOp = Op("new", 0)

NextSetup ==
    \/ \E spawn \in SUBSET Enemies : LevelCreateObjects(spawn)
    \/ (lastOp.op # "new" /\ LevelHandleCollisions)
    \/ \E b \in Bullets : BulletTweenComplete(b)
    \/ \E b \in Bullets : Fire(b)

SpecSetup == InitConstructed /\ [][NextSetup]_vars

(***************************************************************************)
(* The intro under fair delivery of its events: every pending tween        *)
(* completes, every dialogue finishes, every running timer fires.          *)
(***************************************************************************)
IntroFairness ==
    /\ WF_vars(BeginIntro)
    /\ \A d \in 1..MaxIntroCalls : WF_vars(DialogueFinished(d))
    /\ \A t \in 1..MaxIntroCalls : WF_vars(FlashTick(t))

SpecIntroFair == Init /\ [][NextIntro]_vars /\ IntroFairness

(***************************************************************************)
(* The sequencer state of the design, read off the level's callbacks.      *)
(***************************************************************************)
SeqState ==
    IF flashTimers # <<>>
    THEN IF \A t \in 1..Len(flashTimers) : flashTimers[t] = 0
         THEN "Active" ELSE "MissionStartFlash"
    ELSE IF dialogues # <<>> THEN "AwaitingDialogue"
    ELSE IF walkTweens > 0 THEN "IntroWalking"
    ELSE "Idle"

SeqRank ==
    CASE SeqState = "Idle" -> 0
      [] SeqState = "IntroWalking" -> 1
      [] SeqState = "AwaitingDialogue" -> 2
      [] SeqState = "MissionStartFlash" -> 3
      [] SeqState = "Active" -> 4

FlashRunning == \E t \in 1..Len(flashTimers) : flashTimers[t] > 0

RECURSIVE SumDamage(_)
SumDamage(es) ==
    IF es = {} THEN 0
    ELSE LET e == CHOOSE x \in es : TRUE IN EnemyDamage[e] + SumDamage(es \ {e})

RECURSIVE SumHealth(_, _)
SumHealth(hs, es) ==
    IF es = {} THEN 0
    ELSE LET e == CHOOSE x \in es : TRUE IN hs[e] + SumHealth(hs, es \ {e})

\* The bullets of a frame that met a live enemy with an enabled body and no terrain.
OnEnemyOnly(op) == {b \in Bullets : b \notin op.bt /\ \E e \in Enemies : <<b, e>> \in op.be}

\* The enemies a bullet killed in the frame between two states.
KilledIn(before, after) == {e \in Enemies : before[e] > 0 /\ after[e] <= 0}

\* The bullets of a frame that met terrain or a live enemy with an enabled body.
HitIn(op) == {b \in Bullets : b \in op.bt \/ \E e \in Enemies : <<b, e>> \in op.be}

TerrainPasses == {"player-terrain", "enemies-terrain"}

ListedPasses ==
    <<"player-enemies", "bullets-terrain", "bullets-enemies",
      "player-terrain", "enemies-terrain">>

IsListedPass(p) == \E i \in 1..Len(ListedPasses) : ListedPasses[i] = p

(***************************************************************************)
(* Properties.                                                             *)
(***************************************************************************)

\* C1: every Level.handleCollisions runs the passes player-enemies,
\* bullets-terrain, bullets-enemies, player-terrain, enemies-terrain in this
\* order, none skipped, none reordered.
C1_PassOrder ==
    lastOp.op = "handleCollisions" =>
        SelectSeq(lastOp.passes, IsListedPass) = ListedPasses

C1_Witness ==
    /\ lastOp.op = "handleCollisions"
    /\ lastOp.contacts # {}
    /\ player.health < PlayerHealth
    /\ \E b \in Bullets : bullets[b].exists /\ ~bullets[b].enable

\* C2: a frame of the level that starts with the player invincible leaves the
\* player's health, and the rest of the player, as it was, whatever enemies
\* overlap the player and whatever their damage.
C2_InvincibleNoDamage ==
    [][(lastOp'.op = "handleCollisions" /\ player.invincible) => player' = player]_vars

C2_Witness ==
    /\ lastOp.op = "handleCollisions"
    /\ player.invincible
    /\ lastOp.contacts = Enemies

\* C3: a dialogue that has signalled 'finished' once or several times has run
\* the mission-start handler exactly once.
C3_DialogueOneShot ==
    \A d \in 1..Len(dialogues) : dialogues[d].signals # "none" => dialogues[d].runs = 1

C3_Witness ==
    \E d \in 1..Len(dialogues) : dialogues[d].signals = "repeated" /\ dialogues[d].runs = 1

\* C4, as claimed: while the flashing cycle has toggles left, the player's
\* controls are still disabled, the health display is not made and the level
\* music is not playing.
C4_ControlsAfterFlash ==
    FlashRunning => (player.disableControls /\ ~player.hpMade /\ ~bgMusic)

\* C4, amended: the mission-start handler itself re-enables the controls, makes
\* the health display, stops the intro music and starts the level music, in the
\* step that creates the flashing text and starts its timer with all 5 repeats
\* left; the toggles of the timer change none of these.
C4_StartMissionEnables ==
    [][/\ (lastOp'.op = "dialogueFinished" /\ Len(flashes') > Len(flashes)) =>
            /\ ~player'.disableControls
            /\ player'.hpMade
            /\ ~introMusic'
            /\ bgMusic'
            /\ flashTimers'[Len(flashTimers')] = FlashRepeat
            /\ flashes'[Len(flashes')].visible
       /\ lastOp'.op = "flashTick" => UNCHANGED <<player, introMusic, bgMusic>>]_vars

C4_Witness ==
    /\ lastOp.op = "flashTick"
    /\ Len(flashTimers) = 1
    /\ flashTimers[1] \in 1..(FlashRepeat - 1)
    /\ ~player.disableControls
    /\ player.hpMade
    /\ bgMusic
    /\ ~introMusic

\* C5: after one intro(), the walk completed, one dialogue-finished signal and
\* 5 flash ticks, the sequencer is Active and the controls are enabled; and
\* under fair delivery of the events an intro leads to Active with the controls
\* enabled.
ScenarioRun ==
    /\ IntroCalls = 1
    /\ walkTweens = 0
    /\ dialogues[1].signals = "once"
    /\ flashTimers = <<0>>

C5_ScenarioActive ==
    /\ [](ScenarioRun => (SeqState = "Active" /\ ~player.disableControls))
    /\ (IntroCalls >= 1) ~> (SeqState = "Active" /\ ~player.disableControls)

C5_Witness == ScenarioRun /\ lastOp.op = "flashTick" /\ ~flashes[1].visible

\* C6, as claimed: the sequencer state never moves backward and the side
\* effects of each transition (intro, dialogue start, mission start) run at
\* most once per level.
C6_OneShotForward ==
    [][/\ SeqRank' >= SeqRank
       /\ IntroCalls' <= 1
       /\ Len(dialogues') <= 1
       /\ Len(flashes') <= 1]_vars

\* C7: a Main.update with the running flag false changes nothing: no actor, no
\* bullet, no HUD counter, no sequencer state, and it runs no overlap pass.
C7_NotRunningNoEffect ==
    [][(lastOp'.op = "update" /\ ~running) =>
          /\ UNCHANGED <<player, enemies, bullets, running, fpsText, seqVars>>
          /\ lastOp'.passes = <<>>]_vars

C7_Witness ==
    /\ lastOp.op = "update"
    /\ ~running
    /\ lastOp.contacts # {}
    /\ ~player.invincible
    /\ \E b \in Bullets : bullets[b].enable

\* C8, as claimed: a running Main.update runs the passes of
\* Level.handleCollisions in its order, the player-enemy contact damage
\* included.
C8_UpdateDelegates ==
    [][(lastOp'.op = "update" /\ running) =>
          /\ lastOp'.passes = LevelPasses
          /\ (~player.invincible /\ lastOp'.contacts # {}) =>
                player'.health = player.health - SumDamage(lastOp'.contacts)]_vars

\* C9, as claimed: a bullet-wall or bullet-enemy handler called on a bullet
\* that is already disabled changes nothing: no enemy health, no decay
\* animation started.
C9_DecayIdempotent ==
    [][(/\ lastOp'.op \in {"level", "main"} \X {"_bulletWallCollision", "_bulletEnemyCollision"}
        /\ ~bullets[lastOp'.arg].enable) => UNCHANGED <<player, enemies, bullets>>]_vars

\* C10: in a frame of the level a non-invincible player loses the damage of
\* every enemy overlapping it, one after the other: with both enemies the sum
\* of the two damages.
C10_CumulativeDamage ==
    [][(lastOp'.op = "handleCollisions" /\ ~player.invincible) =>
          player'.health = player.health - SumDamage(lastOp'.contacts)]_vars

C10_Witness ==
    /\ lastOp.op = "handleCollisions"
    /\ lastOp.contacts = Enemies
    /\ ~player.invincible
    /\ player.health = PlayerHealth - (EnemyDamage[1] + EnemyDamage[2])

\* C11: in a frame of the level, every enabled bullet that overlaps a live
\* enemy and no terrain ends the frame disabled with exactly one decay started
\* (the one of the enemy hit, none of a wall hit), and one of the enemies it
\* overlaps has lost the bullet's damage; the enemies lose the bullet's damage
\* once per such bullet in total, and an enemy no such bullet overlaps loses
\* nothing.
C11_BulletEnemyOnce ==
    [][lastOp'.op = "handleCollisions" =>
          /\ \A b \in OnEnemyOnly(lastOp') :
                /\ bullets'[b].exists
                /\ ~bullets'[b].enable
                /\ bullets'[b].tweens = bullets[b].tweens + 1
                /\ \E e \in Enemies :
                      /\ <<b, e>> \in lastOp'.be
                      /\ enemies'[e] <= enemies[e] - BulletDamage
          /\ SumHealth(enemies, Enemies) - SumHealth(enemies', Enemies)
                = BulletDamage * Cardinality(OnEnemyOnly(lastOp'))
          /\ \A e \in Enemies :
                (\A b \in OnEnemyOnly(lastOp') : <<b, e>> \notin lastOp'.be)
                    => enemies'[e] = enemies[e]]_vars

C11_Witness ==
    /\ lastOp.op = "handleCollisions"
    /\ lastOp.bt = {}
    /\ lastOp.be = {<<1, 2>>}
    /\ enemies[1] = EnemyHealth
    /\ enemies[2] = EnemyHealth - BulletDamage
    /\ bullets[1].exists /\ ~bullets[1].enable /\ bullets[1].tweens = 1

\* C12, as claimed: createObjects on a level whose tilemap has no spawn point
\* with zombieID reports a configuration error instead of returning the enemy
\* group.
C12_NoSpawnFails ==
    (lastOp.op = "createObjects" /\ lastOp.arg.spawn = {}) =>
        lastOp.arg.result = "ConfigurationError"

\* C13, as claimed: once the level is stopped by the death of its player, no
\* walk-complete, dialogue-finished or flash-timer callback of the level runs
\* any more.
C13_StopCancels ==
    [][~PlayerExists(player) =>
          lastOp'.op \notin {"beginIntro", "dialogueFinished", "flashTick"}]_vars

\* C14: the player-terrain and enemies-terrain passes of a frame of the level
\* run and change nothing, whatever overlaps the frame meets: no health, no
\* bullet, no invincibility or controls flag; so a frame that meets no
\* player-enemy, bullet-terrain or bullet-enemy contact leaves the player, the
\* enemies, the bullets and everything else as they were.
C14_UncoveredPairsIgnored ==
    [][lastOp'.op = "handleCollisions" =>
          /\ \A p \in TerrainPasses :
                /\ \E i \in 1..Len(lastOp'.passes) : lastOp'.passes[i] = p
                /\ \A ov \in Overlaps(World) : ApplyPass(World, p, ov, "level") = World
                /\ \A ov \in Overlaps(World') : ApplyPass(World', p, ov, "level") = World'
          /\ (lastOp'.contacts = {} /\ lastOp'.bt = {} /\ lastOp'.be = {}) =>
                UNCHANGED <<worldVars, mainVars, seqVars>>]_vars

C14_Witness ==
    /\ lastOp.op = "handleCollisions"
    /\ lastOp.contacts = {} /\ lastOp.bt = {} /\ lastOp.be = {}
    /\ player.health = PlayerHealth - EnemyDamage[1]
    /\ enemies[1] = EnemyHealth - BulletDamage
    /\ \E b \in Bullets : bullets[b].exists /\ bullets[b].enable

\* C15: in a frame of the level where a non-invincible player overlaps an
\* enemy that a bullet kills in the same frame, the player still loses that
\* enemy's contact damage, with the damage of the other enemies in contact;
\* and the contact pass runs once, before the bullet-enemy pass, so no enemy
\* killed in the frame meets a contact pass afterwards in that frame.
C15_ContactBeforeKill ==
    [][(lastOp'.op = "handleCollisions" /\ ~player.invincible) =>
          /\ \A e \in lastOp'.contacts \cap KilledIn(enemies, enemies') :
                /\ player'.health = player.health - SumDamage(lastOp'.contacts)
                /\ player'.health <= player.health - EnemyDamage[e]
          /\ \A i, j \in 1..Len(lastOp'.passes) :
                (lastOp'.passes[i] = "player-enemies" /\ lastOp'.passes[j] = "bullets-enemies")
                    => i < j
          /\ Cardinality({i \in 1..Len(lastOp'.passes) :
                            lastOp'.passes[i] = "player-enemies"}) = 1]_vars

C15_Witness ==
    /\ lastOp.op = "handleCollisions"
    /\ ~player.invincible
    /\ lastOp.contacts = {2}
    /\ lastOp.be = {<<1, 2>>} /\ lastOp.bt = {}
    /\ enemies[2] <= 0
    /\ player.health = PlayerHealth - EnemyDamage[2]

\* C16: a running Main.update destroys no bullet; every bullet that hits
\* terrain or an enemy in it ends the update existing, with its body disabled
\* and its decay started; a bullet stops existing only in the step in which
\* its decay completes, and it was disabled before that step.
C16_NoMidFrameDestroy ==
    [][/\ lastOp'.op = "update" =>
            /\ \A b \in Bullets : bullets[b].exists => bullets'[b].exists
            /\ running => \A b \in HitIn(lastOp') :
                  /\ bullets'[b].exists
                  /\ ~bullets'[b].enable
                  /\ bullets'[b].frameName = "bang"
                  /\ bullets'[b].tweens = bullets[b].tweens + 1
       /\ \A b \in Bullets :
            (bullets[b].exists /\ ~bullets'[b].exists) =>
                (lastOp'.op = "bulletDecayed" /\ lastOp'.arg = b /\ ~bullets[b].enable)]_vars

C16_Witness ==
    /\ lastOp.op = "update"
    /\ running
    /\ lastOp.bt = {1}
    /\ lastOp.be = {<<1, 1>>}
    /\ bullets[1].exists /\ ~bullets[1].enable /\ bullets[1].tweens = 1
    /\ enemies[1] = EnemyHealth

\* C17, as claimed: in every state where a walk tween or a dialogue's
\* mission-start binding is still pending, the player's controls are disabled.
C17_ControlsOffWhilePending ==
    (walkTweens > 0 \/ \E d \in 1..Len(dialogues) : dialogues[d].listeners > 0)
        => player.disableControls

\* C18, as claimed: the intro music and the level music are never playing in
\* the same state.
C18_MusicExclusive == ~(introMusic /\ bgMusic)

\* C19, as claimed: once the flash timers have used up their repeats, every
\* 'MISSION START' text created is hidden.
C19_HiddenAfterCycle ==
    (flashTimers # <<>> /\ \A t \in 1..Len(flashTimers) : flashTimers[t] = 0)
        => \A f \in 1..Len(flashes) : ~flashes[f].visible

\* C20: a frame of the level changes no sequencer state, no music and no
\* controls, animation or health-display flag of the player, in whatever
\* sequencer state it runs; a non-invincible player loses the damage of the
\* enemies in contact, also while the intro runs with the controls disabled,
\* and the bullets and enemies are hit as in any other frame.
C20_FramesIgnoreSequencer ==
    [][lastOp'.op = "handleCollisions" =>
          /\ UNCHANGED <<seqVars, mainVars>>
          /\ player' = [player EXCEPT !.health = player'.health]
          /\ player'.health = player.health -
                (IF player.invincible THEN 0 ELSE SumDamage(lastOp'.contacts))
          /\ \A b \in HitIn(lastOp') : ~bullets'[b].enable
          /\ SumHealth(enemies, Enemies) - SumHealth(enemies', Enemies)
                = BulletDamage * Cardinality(OnEnemyOnly(lastOp'))]_vars

C20_Witness ==
    /\ lastOp.op = "handleCollisions"
    /\ lastOp.contacts = {1}
    /\ player.disableControls
    /\ walkTweens > 0
    /\ introMusic
    /\ ~player.invincible
    /\ player.health = PlayerHealth - EnemyDamage[1]

====
